---- MODULE Spec2Model ----
(***************************************************************************)
(* A model of the reddit_agent package: RedditAIAgent.process_subreddit   *)
(* (src/reddit_agent/agent.py) run by several agent processes against one *)
(* SQLite database (src/reddit_agent/database.py), with the scoring of    *)
(* src/reddit_agent/analysis.py.                                           *)
(*                                                                         *)
(* Python floats are modelled as exact rationals [n, d] in lowest terms.  *)
(* Every database method is one autocommitted statement, so it is one     *)
(* atomic step; the agent's in-memory work between two database calls is  *)
(* local to its process and is folded into the neighbouring step.         *)
(***************************************************************************)
EXTENDS Integers, Sequences, FiniteSets, TLC

\* ------------------------------------------------------------- bounds
\* Agent processes that share the database file.
NumAgents == 2

Agents == 1..NumAgents

\* ------------------------------------------------- float arithmetic
Abs(x) == IF x < 0 THEN -x ELSE x

RECURSIVE GCD(_, _)
GCD(a, b) == IF b = 0 THEN a ELSE GCD(b, a % b)

\* The float n/d (d # 0), kept in lowest terms with a positive denominator.
Rat(n, d) ==
    LET s == IF d < 0 THEN -1 ELSE 1
        g == GCD(Abs(n), Abs(d))
    IN  [kind |-> "num", n |-> (s * n) \div g, d |-> (s * d) \div g]

Zero == Rat(0, 1)
One == Rat(1, 1)
RAdd(x, y) == Rat(x.n * y.d + y.n * x.d, x.d * y.d)
RSub(x, y) == Rat(x.n * y.d - y.n * x.d, x.d * y.d)
RMul(x, y) == Rat(x.n * y.n, x.d * y.d)
RDiv(x, y) == Rat(x.n * y.d, x.d * y.n)
RLt(x, y) == x.n * y.d < y.n * x.d
RLe(x, y) == x.n * y.d <= y.n * x.d
RGt(x, y) == RLt(y, x)
RMin(x, y) == IF RLt(y, x) THEN y ELSE x
RMax(x, y) == IF RGt(y, x) THEN y ELSE x

\* ---------------------------------------------------- content source
\* Names a caller may pass as subreddit_name.
RequestNames == {"x", "priv", "forb", "gone", "down"}

\* What reading subreddit.subreddit_type does for each name: the type, or the
\* exception the lazy fetch raises (prawcore's Redirect and Forbidden, or any
\* other, such as a request that times out).
SubredditAccess(name) ==
    CASE name = "priv" -> "private"
      [] name = "forb" -> "Forbidden"
      [] name = "gone" -> "Redirect"
      [] name = "down" -> "Exception"
      [] OTHER -> "public"

\* The fields of the submissions the source lists, by id.
Score(id) == CASE id = 1 -> 40 [] id = 2 -> 200 [] id = 3 -> 90 [] OTHER -> 0
CommentCount(id) == CASE id = 1 -> 10 [] id = 2 -> 0 [] id = 3 -> 30 [] OTHER -> 0
\* current_time - created_utc, in seconds.
AgeSeconds(id) == CASE id = 1 -> 1800 [] id = 2 -> 3600 [] id = 3 -> 7200 [] OTHER -> 0
Stickied(id) == id = 2
\* Whether len(list(submission.comments)) succeeds; when it raises, the count is 0.
CommentsAvailable(id) == id # 3

Submission(id) ==
    [id |-> id,
     title |-> <<"title", id>>,
     selftext |-> <<"text", id>>,
     author |-> <<"user", id>>,
     subreddit |-> "x",
     created_utc |-> 0 - AgeSeconds(id),
     score |-> Score(id),
     comments |-> CommentCount(id),
     has_comments |-> TRUE,
     comments_ok |-> CommentsAvailable(id),
     stickied |-> Stickied(id)]

\* The ids of the submissions the source holds for community "x", newest
\* first: a fresh post and a stickied one.
SourceIds == <<1, 2>>

\* The values of `limit` the callers pass.
Limits == 1..Len(SourceIds)

\* subreddit.new(limit=limit): the first `limit` submissions, newest first.
NewListing(name, limit) ==
    LET n == IF limit < Len(SourceIds) THEN limit ELSE Len(SourceIds)
    IN  [i \in 1..n |-> Submission(SourceIds[i])]

\* ------------------------------------------------------- analysis.py
analyze_submission(s) == [sentiment |-> Rat(1, 2), topics |-> <<"general">>]

\* The rate without its cap at 1.0.
EngagementUncapped(s) ==
    LET comment_count == IF s.has_comments /\ s.comments_ok THEN s.comments ELSE 0
        total_engagement == Rat(s.score + comment_count, 1)
        time_factor == RMax(One, Rat(0 - s.created_utc, 3600))
    IN  RDiv(total_engagement, RMul(Rat(100, 1), time_factor))

\* Lines 24-45, with current_time = 0.  s.has_comments is hasattr(submission,
\* 'comments') and s.comments_ok whether len(list(...)) succeeds (lines 28-34).
calculate_engagement_rate(s) ==
    LET comment_count == IF s.has_comments /\ s.comments_ok THEN s.comments ELSE 0
        total_engagement == Rat(s.score + comment_count, 1)
        time_factor == RMax(One, Rat(0 - s.created_utc, 3600))
    IN  RMin(One, RDiv(total_engagement, RMul(Rat(100, 1), time_factor)))

calculate_relevance(s, analysis) == Rat(1, 2)

calculate_novelty(s, analysis) == Rat(1, 2)

UtilityMetrics(s, analysis) ==
    [engagement_rate |-> calculate_engagement_rate(s),
     sentiment_score |-> analysis.sentiment,
     relevance_score |-> calculate_relevance(s, analysis),
     novelty_score |-> calculate_novelty(s, analysis)]

\* ---------------------------------------------------------- agent.py
\* The weight configurations the environment variables may give.
DefaultWeights ==
    [engagement |-> Rat(4, 10), sentiment |-> Rat(2, 10),
     relevance |-> Rat(2, 10), novelty |-> Rat(2, 10)]

EngagementHeavyWeights ==
    [engagement |-> Rat(42, 100), sentiment |-> Rat(20, 100),
     relevance |-> Rat(20, 100), novelty |-> Rat(18, 100)]

WeightConfigs == {DefaultWeights, EngagementHeavyWeights}

learning_rate == Rat(1, 10)

\* The sum with the novelty term left out.
UtilityWithoutNovelty(w, metrics) ==
    RAdd(RAdd(RMul(w.engagement, metrics.engagement_rate),
              RMul(w.sentiment, metrics.sentiment_score)),
         RMul(w.relevance, metrics.relevance_score))

calculate_utility(w, metrics) ==
    RAdd(RAdd(RAdd(RMul(w.engagement, metrics.engagement_rate),
                   RMul(w.sentiment, metrics.sentiment_score)),
              RMul(w.relevance, metrics.relevance_score)),
         RMul(w.novelty, metrics.novelty_score))

\* The threshold test with >= in place of >.
AtLeastThreshold(utility_score) == RLe(Rat(7, 10), utility_score)

\* Line 114: only high-utility submissions are learned from.
HighUtility(utility_score) == RGt(utility_score, Rat(7, 10))

\* The moving average with the two weights exchanged.
SmoothSwapped(old_value, new_value) ==
    RAdd(RMul(learning_rate, old_value), RMul(RSub(One, learning_rate), new_value))

\* The observation added on without any decay of the old value.
Accumulate(old_value, new_value) ==
    RAdd(old_value, RMul(learning_rate, new_value))

\* The exponential moving average of lines 151-154.
Smooth(old_value, new_value) ==
    RAdd(RMul(RSub(One, learning_rate), old_value), RMul(learning_rate, new_value))

\* float(v) succeeds on a number and raises ValueError/TypeError otherwise.
IsNumeric(v) == v.kind = "num"

\* update_model on one agent's subreddit_models m (a function whose domain is
\* the communities that have state); new_data maps keys to values.
update_model(m, subreddit, new_data) ==
    IF subreddit \notin DOMAIN m
    THEN m @@ (subreddit :> new_data)
    ELSE LET old == m[subreddit]
             upd(key) ==
                 LET old_raw == IF key \in DOMAIN old THEN old[key] ELSE Zero
                 IN  IF key = "topics" THEN new_data[key]
                     ELSE IF IsNumeric(old_raw) /\ IsNumeric(new_data[key])
                          THEN Smooth(old_raw, new_data[key])
                          ELSE new_data[key]
         IN  [m EXCEPT ![subreddit] =
                 [key \in DOMAIN old \cup DOMAIN new_data |->
                     IF key \in DOMAIN new_data THEN upd(key) ELSE old[key]]]

\* The observations process_subreddit passes to update_model (lines 106-111).
Observations(metrics) ==
    [avg_engagement |-> metrics.engagement_rate,
     avg_sentiment |-> metrics.sentiment_score,
     avg_relevance |-> metrics.relevance_score,
     avg_novelty |-> metrics.novelty_score]

\* ------------------------------------------------------- database.py
\* The SELECT without its WHERE clause.
AnyRowExists(tbl, submission_id) == Len(tbl) > 0

is_submission_processed(tbl, submission_id) ==
    \E i \in 1..Len(tbl) : tbl[i].submission_id = submission_id

\* A schema whose submission_id column is no key.
NoPrimaryKey(tbl, submission_id) == FALSE

\* submission_id TEXT PRIMARY KEY: an INSERT of a present key raises
\* sqlite3.IntegrityError and changes nothing.
PrimaryKeyConflict(tbl, submission_id) ==
    \E i \in 1..Len(tbl) : tbl[i].submission_id = submission_id

\* The row store_submission inserts (processed_at, the wall clock, left out).
SubmissionRow(s, analysis, utility_score) ==
    [submission_id |-> s.id,
     title |-> s.title,
     content |-> s.selftext,
     author |-> s.author,
     subreddit |-> s.subreddit,
     created_utc |-> s.created_utc,
     sentiment |-> analysis.sentiment,
     topics |-> analysis.topics,
     engagement_score |->
         IF "engagement_rate" \in DOMAIN analysis THEN analysis.engagement_rate ELSE Zero,
     utility_score |-> utility_score]

\* INSERT OR REPLACE in place of INSERT: the old row gives way to the new one.
InsertOrReplace(tbl, s, analysis, utility_score) ==
    [error |-> "none",
     tbl |-> Append(SelectSeq(tbl, LAMBDA r : r.submission_id # s.id),
                    SubmissionRow(s, analysis, utility_score))]

\* INSERT OR IGNORE in place of INSERT: a present key is passed over silently.
InsertOrIgnore(tbl, s, analysis, utility_score) ==
    IF PrimaryKeyConflict(tbl, s.id)
    THEN [error |-> "none", tbl |-> tbl]
    ELSE [error |-> "none", tbl |-> Append(tbl, SubmissionRow(s, analysis, utility_score))]

\* store_submission: one INSERT; the table afterwards and the exception raised.
store_submission(tbl, s, analysis, utility_score) ==
    IF PrimaryKeyConflict(tbl, s.id)
    THEN [error |-> "IntegrityError", tbl |-> tbl]
    ELSE [error |-> "none", tbl |-> Append(tbl, SubmissionRow(s, analysis, utility_score))]

\* pattern_data of _learn_from_submission (lines 161-166).
PatternData(s, analysis) ==
    [title_length |-> Len(s.title),
     content_length |-> Len(s.selftext),
     post_time |-> (s.created_utc \div 3600) % 24,
     topics |-> analysis.topics]

\* A row whose confidence is always 1.0.
PatternRowFullConfidence(tbl, subreddit, pattern_type, pattern_data, confidence) ==
    [pattern_id |-> Len(tbl) + 1,
     subreddit |-> subreddit,
     pattern_type |-> pattern_type,
     pattern_data |-> pattern_data,
     confidence |-> One,
     utility_score |-> One]

\* The row store_pattern inserts; pattern_id is AUTOINCREMENT.
PatternRow(tbl, subreddit, pattern_type, pattern_data, confidence) ==
    [pattern_id |-> Len(tbl) + 1,
     subreddit |-> subreddit,
     pattern_type |-> pattern_type,
     pattern_data |-> pattern_data,
     confidence |-> confidence,
     utility_score |-> confidence]

\* An UPDATE of the community's row of that type when there is one.
UpsertPattern(tbl, subreddit, pattern_type, pattern_data, confidence) ==
    IF \E i \in 1..Len(tbl) : tbl[i].subreddit = subreddit /\ tbl[i].pattern_type = pattern_type
    THEN [i \in 1..Len(tbl) |->
            IF tbl[i].subreddit = subreddit /\ tbl[i].pattern_type = pattern_type
            THEN [tbl[i] EXCEPT !.pattern_data = pattern_data, !.confidence = confidence,
                                !.utility_score = confidence]
            ELSE tbl[i]]
    ELSE Append(tbl, PatternRow(tbl, subreddit, pattern_type, pattern_data, confidence))

\* store_pattern (lines 99-117): one INSERT.
store_pattern(tbl, subreddit, pattern_type, pattern_data, confidence) ==
    Append(tbl, PatternRow(tbl, subreddit, pattern_type, pattern_data, confidence))

\* ------------------------------------------------------------- state
VARIABLES
    utility_weights,   \* RedditAIAgent.utility_weights, read from the environment
    submissions,       \* table submissions: the rows, in insertion order
    learned_patterns,  \* table learned_patterns: the rows, in insertion order
    subreddit_models,  \* per agent: RedditAIAgent.subreddit_models
    pc,                \* per agent: where it is in process_subreddit
    call,              \* per agent: the arguments of the running call
    idx,               \* per agent: position of the for loop in the listing
    processed,         \* per agent: processed_submissions of the running call
    stored,            \* history: ids for which store_submission has succeeded
    pattern_src,       \* history: per learned_patterns row, the submission it came from
    checked,           \* history: per agent, loop positions whose dedup check ran in this call
    last,              \* history: the step taken last and what it did
    persisted,         \* history: per agent, ids whose row this call has inserted, in order
    schema,            \* the tables the database file holds
    action_outcomes    \* table action_outcomes: the rows, in insertion order

vars == <<utility_weights, submissions, learned_patterns, subreddit_models,
          pc, call, idx, processed, stored, pattern_src, checked, last,
          persisted, schema, action_outcomes>>

\* The three tables of setup_database (lines 22, 40, 54).
Tables == {"submissions", "learned_patterns", "action_outcomes"}

NoCall == [name |-> "", limit |-> 0]

NoEvent ==
    [agent |-> 0, step |-> "init", name |-> "", limit |-> 0, idx |-> 0, sid |-> 0,
     outcome |-> "", scored |-> FALSE, returned |-> FALSE, raised |-> FALSE,
     result |-> <<>>, checked |-> {}, persisted |-> <<>>, arg |-> <<>>]

Event(a, step, name, limit, i, sid, outcome, scored) ==
    [NoEvent EXCEPT !.agent = a, !.step = step, !.name = name, !.limit = limit,
                    !.idx = i, !.sid = sid, !.outcome = outcome, !.scored = scored]

Init ==
    /\ utility_weights \in WeightConfigs
    /\ submissions = <<>>
    /\ learned_patterns = <<>>
    /\ subreddit_models = [a \in Agents |-> <<>>]
    /\ pc = [a \in Agents |-> "idle"]
    /\ call = [a \in Agents |-> NoCall]
    /\ idx = [a \in Agents |-> 0]
    /\ processed = [a \in Agents |-> <<>>]
    /\ stored = {}
    /\ pattern_src = <<>>
    /\ checked = [a \in Agents |-> {}]
    /\ last = NoEvent
    /\ persisted = [a \in Agents |-> <<>>]
    /\ schema = Tables
    /\ action_outcomes = <<>>

Listing(a) == NewListing(call[a].name, call[a].limit)
Current(a) == Listing(a)[idx[a]]

\* `return result` (lines 81, 127, 131, 134, 137): the call is over.
Return(a, ev, result, chk) ==
    /\ pc' = [pc EXCEPT ![a] = "idle"]
    /\ call' = [call EXCEPT ![a] = NoCall]
    /\ idx' = [idx EXCEPT ![a] = 0]
    /\ processed' = [processed EXCEPT ![a] = <<>>]
    /\ checked' = [checked EXCEPT ![a] = {}]
    /\ persisted' = [persisted EXCEPT ![a] = <<>>]
    /\ last' = [ev EXCEPT !.returned = TRUE, !.result = result, !.checked = chk,
                         !.persisted = persisted[a]]

\* The for loop of line 85 moves to the next submission, or ends and line 127
\* returns processed_submissions.
NextSubmission(a, ev, proc, chk) ==
    IF idx[a] < Len(Listing(a))
    THEN /\ pc' = [pc EXCEPT ![a] = "check"]
         /\ idx' = [idx EXCEPT ![a] = idx[a] + 1]
         /\ processed' = [processed EXCEPT ![a] = proc]
         /\ checked' = [checked EXCEPT ![a] = chk]
         /\ last' = ev
         /\ UNCHANGED <<call, persisted>>
    ELSE Return(a, ev, proc, chk)

\* A handler that gives the batch up (break in place of continue).
AbortOnError(a, ev, chk) == Return(a, ev, processed[a], chk)

\* Lines 123-125: an exception of one submission is logged and the loop goes on.
OnSubmissionError(a, ev, chk) == NextSubmission(a, ev, processed[a], chk)

\* The private test left out.
NeverPrivate(subreddit_type) == FALSE

\* Line 79.
IsPrivate(subreddit_type) == subreddit_type = "private"

\* The dedup test left out.
AlwaysProcess(tbl, submission_id) == TRUE

\* Line 87.
ShouldProcess(tbl, submission_id) == ~is_submission_processed(tbl, submission_id)

\* Lines 74-85 and 129-137: the call starts, reads subreddit_type, and either
\* returns [] (private; Redirect, Forbidden or any other exception) or enters
\* the loop over subreddit.new(limit).
ValidateNames(a, names) ==
    /\ pc[a] = "idle"
    /\ \E name \in names, limit \in Limits :
         LET access == SubredditAccess(name)
             ev == Event(a, "validate", name, 0, 0, 0, access, FALSE)
             raises == access \in {"Redirect", "Forbidden", "Exception"}
         IN  IF raises \/ IsPrivate(access) \/ Len(NewListing(name, limit)) = 0
             THEN /\ last' = [ev EXCEPT !.returned = TRUE, !.result = <<>>]
                  /\ UNCHANGED <<pc, call, idx, processed, checked>>
             ELSE /\ pc' = [pc EXCEPT ![a] = "check"]
                  /\ call' = [call EXCEPT ![a] = [name |-> name, limit |-> limit]]
                  /\ idx' = [idx EXCEPT ![a] = 1]
                  /\ processed' = [processed EXCEPT ![a] = <<>>]
                  /\ checked' = [checked EXCEPT ![a] = {}]
                  /\ last' = [ev EXCEPT !.limit = limit]
    /\ UNCHANGED <<utility_weights, submissions, learned_patterns,
                   subreddit_models, stored, pattern_src, persisted,
                   schema, action_outcomes>>

Validate(a) == ValidateNames(a, RequestNames)

\* Line 87: the dedup check, one SELECT.  The storage may be unavailable.
Check(a) ==
    /\ pc[a] = "check"
    /\ \E storage_fails \in BOOLEAN :
         LET s == Current(a)
             chk == checked[a] \cup {idx[a]}
             ev(outcome) == Event(a, "check", call[a].name, call[a].limit,
                                  idx[a], s.id, outcome, FALSE)
         IN  IF storage_fails
             THEN OnSubmissionError(a, ev("OperationalError"), chk)
             ELSE IF ShouldProcess(submissions, s.id)
                  THEN /\ pc' = [pc EXCEPT ![a] = "store"]
                       /\ checked' = [checked EXCEPT ![a] = chk]
                       /\ last' = ev("new")
                       /\ UNCHANGED <<call, idx, processed, persisted>>
                  ELSE NextSubmission(a, ev("skip"), processed[a], chk)
    /\ UNCHANGED <<utility_weights, submissions, learned_patterns,
                   subreddit_models, stored, pattern_src, schema, action_outcomes>>

\* Lines 89-111: analysis, metrics, utility, store_submission (one INSERT) and,
\* when the INSERT has committed, update_model.
Store(a) ==
    /\ pc[a] = "store"
    /\ \E fails \in {"none", "analysis", "storage"} :
         LET s == Current(a)
             analysis == analyze_submission(s)
             metrics == UtilityMetrics(s, analysis)
             utility_score == calculate_utility(utility_weights, metrics)
             ev(outcome) == Event(a, "store", call[a].name, call[a].limit,
                                  idx[a], s.id, outcome, TRUE)
             insert == store_submission(submissions, s, analysis, utility_score)
             error == CASE fails = "analysis" -> "AnalysisError"
                        [] fails = "storage" -> "OperationalError"
                        [] OTHER -> insert.error
         IN  IF error # "none"
             THEN /\ OnSubmissionError(a, ev(error), checked[a])
                  /\ UNCHANGED <<submissions, stored, subreddit_models>>
             ELSE /\ submissions' = insert.tbl
                  /\ stored' = stored \cup {s.id}
                  /\ subreddit_models' =
                        [subreddit_models EXCEPT ![a] =
                            update_model(@, call[a].name, Observations(metrics))]
                  /\ pc' = [pc EXCEPT ![a] = "learn"]
                  /\ persisted' = [persisted EXCEPT ![a] = Append(@, s.id)]
                  /\ last' = ev("stored")
                  /\ UNCHANGED <<call, idx, processed, checked>>
    /\ UNCHANGED <<utility_weights, learned_patterns, pattern_src, schema, action_outcomes>>

\* The entry lines 117-122 append to processed_submissions.
ProcessedEntry(s, utility_score, metrics) ==
    [id |-> s.id, title |-> s.title, utility_score |-> utility_score, metrics |-> metrics]

\* Lines 113-122: _learn_from_submission (store_pattern, one INSERT) when the
\* utility is high, then the entry of the returned list.
Learn(a) ==
    /\ pc[a] = "learn"
    /\ LET s == Current(a)
           analysis == analyze_submission(s)
           metrics == UtilityMetrics(s, analysis)
           utility_score == calculate_utility(utility_weights, metrics)
           entry == ProcessedEntry(s, utility_score, metrics)
           ev(outcome) == Event(a, "learn", call[a].name, call[a].limit,
                                idx[a], s.id, outcome, FALSE)
       IN  IF HighUtility(utility_score)
           THEN \E storage_fails \in BOOLEAN :
                  IF storage_fails
                  THEN /\ OnSubmissionError(a, ev("OperationalError"), checked[a])
                       /\ UNCHANGED <<learned_patterns, pattern_src>>
                  ELSE /\ learned_patterns' =
                             store_pattern(learned_patterns, s.subreddit,
                                           "successful_post",
                                           PatternData(s, analysis), utility_score)
                       /\ pattern_src' = Append(pattern_src, s.id)
                       /\ NextSubmission(a, ev("learned"),
                                         Append(processed[a], entry), checked[a])
           ELSE /\ NextSubmission(a, ev("not learned"),
                                  Append(processed[a], entry), checked[a])
                /\ UNCHANGED <<learned_patterns, pattern_src>>
    /\ UNCHANGED <<utility_weights, submissions, stored, subreddit_models,
                   schema, action_outcomes>>

Next == \E a \in Agents : Validate(a) \/ Check(a) \/ Store(a) \/ Learn(a)

Spec == Init /\ [][Next]_vars

\* ------------------------------------------------------------ claims
SubmissionOf(ev) == Submission(ev.sid)

\* The utility process_subreddit computes for the submission of event ev.
UtilityOf(ev) ==
    calculate_utility(utility_weights,
                      UtilityMetrics(SubmissionOf(ev), analyze_submission(SubmissionOf(ev))))

RowsWithId(id) == {i \in 1..Len(submissions) : submissions[i].submission_id = id}

PatternsFrom(id) == {k \in 1..Len(pattern_src) : pattern_src[k] = id}

IsError(outcome) ==
    outcome \in {"OperationalError", "IntegrityError", "AnalysisError"}

\* C1: however the agents' dedup checks and inserts interleave, the
\* submissions table never holds two rows with the same submission id.
C1_AtMostOneRowPerId ==
    \A i, j \in 1..Len(submissions) :
        submissions[i].submission_id = submissions[j].submission_id => i = j

\* Two agents raced on one submission: both passed the dedup check, and the
\* second INSERT was refused, with every listed submission stored once.
C1_Witness ==
    /\ last.step = "store"
    /\ last.outcome = "IntegrityError"
    /\ \A k \in 1..Len(SourceIds) : Cardinality(RowsWithId(SourceIds[k])) = 1

\* C2: store_submission called with an id that is already stored raises,
\* adds no row and leaves the table, the existing row included, as it was.
C2_DuplicateInsertRejected ==
    [][(/\ last'.step = "store"
        /\ last'.outcome # "AnalysisError"
        /\ is_submission_processed(submissions, last'.sid))
       => (/\ last'.outcome \in {"IntegrityError", "OperationalError"}
           /\ submissions' = submissions)]_vars

\* A second store_submission for a stored id has just been refused.
C2_Witness ==
    /\ last.step = "store"
    /\ last.outcome = "IntegrityError"
    /\ Cardinality(RowsWithId(last.sid)) = 1
    /\ Len(submissions) = 1

\* C3: is_submission_processed(id) is false as long as no store_submission
\* for id has succeeded and true in every state after one has.
C3_ProcessedIffStored ==
    \A id \in 1..(Len(SourceIds) + 1) :
        is_submission_processed(submissions, id) <=> id \in stored

\* One id has been stored and answers true while another still answers false.
C3_Witness ==
    /\ is_submission_processed(submissions, 2)
    /\ ~is_submission_processed(submissions, 1)
    /\ last.step = "store"
    /\ last.outcome = "stored"

\* C4: a submission processed without error leaves exactly one learned
\* pattern when its utility is strictly above 0.7 (0.71 does) and none
\* otherwise (exactly 0.7 does not); no pattern ever comes from a submission
\* whose utility is 0.7 or less.
C4_PatternIffAboveThreshold ==
    /\ (last.step = "learn" /\ ~IsError(last.outcome)) =>
          LET u == UtilityOf(last)
              n == Cardinality(PatternsFrom(last.sid))
          IN  /\ n = (IF 10 * u.n > 7 * u.d THEN 1 ELSE 0)
              /\ u = Rat(7, 10) => n = 0
              /\ u = Rat(71, 100) => n = 1
    /\ \A k \in 1..Len(learned_patterns) :
          10 * learned_patterns[k].confidence.n > 7 * learned_patterns[k].confidence.d

\* A submission of utility 0.71 has just been learned from.
C4_Witness ==
    /\ last.step = "learn"
    /\ last.outcome = "learned"
    /\ UtilityOf(last) = Rat(71, 100)
    /\ Len(learned_patterns) = 1

\* C5: the dedup check of a submission whose id is in the table ends the work
\* on it: no scoring call, no change to either table or to the state store,
\* no entry in the list, the loop moves on, and unless the check itself
\* failed nothing is logged as an error.
C5_ProcessedIsSkipped ==
    [][(last'.step = "check" /\ is_submission_processed(submissions, last'.sid))
       => LET a == last'.agent
          IN  /\ ~last'.scored
              /\ submissions' = submissions
              /\ learned_patterns' = learned_patterns
              /\ subreddit_models' = subreddit_models
              /\ pc'[a] \in {"check", "idle"}
              /\ IF last'.returned
                 THEN last'.result = processed[a]
                 ELSE processed'[a] = processed[a] /\ idx'[a] = idx[a] + 1
              /\ last'.outcome # "OperationalError" => last'.outcome = "skip"]_vars

\* An already-processed submission has just been skipped.
C5_Witness ==
    /\ last.step = "check"
    /\ last.outcome = "skip"
    /\ is_submission_processed(submissions, last.sid)

\* C6: an exception while one submission is processed does not end the
\* batch: the loop goes on to the dedup check of the next submission of the
\* same listing, and a call that got into the loop returns only after the
\* dedup check of every listed submission has run.
C6_FailureDoesNotAbortBatch ==
    LET a == last.agent
        n == Len(NewListing(last.name, last.limit))
    IN  /\ (last.step \in {"check", "store", "learn"} /\ IsError(last.outcome)) =>
              /\ ~last.raised
              /\ IF last.idx < n
                 THEN /\ ~last.returned
                      /\ pc[a] = "check"
                      /\ idx[a] = last.idx + 1
                      /\ call[a] = [name |-> last.name, limit |-> last.limit]
                 ELSE last.returned
        /\ (last.step \in {"check", "store", "learn"} /\ last.returned) =>
              last.checked = 1..n

\* The second submission of a listing has been stored although the first one
\* failed in the same call (it is still not in the table).
C6_Witness ==
    /\ last.step = "store"
    /\ last.outcome = "stored"
    /\ last.idx = 2
    /\ ~is_submission_processed(submissions, SourceIds[1])
    /\ is_submission_processed(submissions, SourceIds[2])

\* C7: a storage failure in is_submission_processed, store_submission or
\* store_pattern ends the call with the failure raised to the caller.
C7_StorageFailurePropagates ==
    last.outcome = "OperationalError" => (last.returned /\ last.raised)

\* C8: a call for a private, forbidden or nonexistent community ends at once
\* with the empty list, after the one access to the source, and changes
\* neither table nor the state store.
C8_InaccessibleReturnsEmpty ==
    [][(/\ last'.step = "validate"
        /\ SubredditAccess(last'.name) \in {"private", "Forbidden", "Redirect"})
       => (/\ last'.returned
           /\ ~last'.raised
           /\ last'.result = <<>>
           /\ pc'[last'.agent] = "idle"
           /\ submissions' = submissions
           /\ learned_patterns' = learned_patterns
           /\ subreddit_models' = subreddit_models)]_vars

\* A call for the private community has returned, with rows in the table.
C8_Witness ==
    /\ last.step = "validate"
    /\ last.outcome = "private"
    /\ last.returned
    /\ last.result = <<>>
    /\ Len(submissions) > 0

\* C9: a stickied submission is never scored, never stored, and never the
\* source of a pattern.
C9_StickiedExcluded ==
    /\ ~(last.scored /\ SubmissionOf(last).stickied)
    /\ \A i \in 1..Len(submissions) : ~Submission(submissions[i].submission_id).stickied
    /\ \A k \in 1..Len(pattern_src) : ~Submission(pattern_src[k]).stickied

\* C10: update_model stores the observations as they are for a community
\* without state, and otherwise sets each numeric key to
\* 0.9 * old + 0.1 * new; from 0.5 and 1.0 that is 0.55.
C10_UpdateModel ==
    [][(last'.step = "store" /\ last'.outcome = "stored")
       => LET a == last'.agent
              name == last'.name
              obs == Observations(UtilityMetrics(SubmissionOf(last'),
                                                 analyze_submission(SubmissionOf(last'))))
              old == subreddit_models[a]
              new == subreddit_models'[a]
          IN  IF name \notin DOMAIN old
              THEN new[name] = obs
              ELSE \A key \in DOMAIN obs :
                     LET o == old[name][key]
                         v == obs[key]
                         r == new[name][key]
                     IN  /\ r.n * (10 * o.d * v.d) = r.d * (9 * o.n * v.d + v.n * o.d)
                         /\ (o = Rat(1, 2) /\ v = One) => r = Rat(11, 20)]_vars

\* An agent's average engagement for "x" went from 0.5 to 0.55.
C10_Witness ==
    \E a \in Agents :
        /\ "x" \in DOMAIN subreddit_models[a]
        /\ subreddit_models[a]["x"].avg_engagement = Rat(11, 20)
        /\ last.agent = a
        /\ last.step = "store"

\* ------------------------------------------------------------ llm.py
\* Text is a sequence of characters.  What the completion request does: it
\* raises, or it returns a message whose content is None or a text.
OracleTexts ==
    {<<"0", ".", "9">>,
     <<" ", "0", ".", "9", "\n">>,
     <<"a", "i", ",", " ", "m", "l">>,
     <<"o", "k">>,
     <<"{", "}">>,
     <<>>}

OracleOutcomes ==
    {[kind |-> "raise", chars |-> <<>>], [kind |-> "None", chars |-> <<>>]}
        \cup {[kind |-> "str", chars |-> c] : c \in OracleTexts}

General == <<"g", "e", "n", "e", "r", "a", "l">>

\* _get_completion (lines 38-61): the content of the reply, and "{}" when the
\* request raises.
get_completion(oracle) ==
    IF oracle.kind = "raise"
    THEN [kind |-> "str", chars |-> <<"{", "}">>]
    ELSE oracle

Whitespace == {" ", "\n"}

\* str.strip().
RECURSIVE Strip(_)
Strip(c) ==
    IF c = <<>> THEN c
    ELSE IF c[1] \in Whitespace THEN Strip(Tail(c))
    ELSE IF c[Len(c)] \in Whitespace THEN Strip(SubSeq(c, 1, Len(c) - 1))
    ELSE c

\* str.split(','): the pieces between the commas, at least one.
RECURSIVE Split(_)
Split(c) ==
    IF \A i \in 1..Len(c) : c[i] # ","
    THEN <<c>>
    ELSE LET k == CHOOSE i \in 1..Len(c) : c[i] = "," /\ \A j \in 1..(i - 1) : c[j] # ","
         IN  <<SubSeq(c, 1, k - 1)>> \o Split(SubSeq(c, k + 1, Len(c)))

DigitValue ==
    "0" :> 0 @@ "1" :> 1 @@ "2" :> 2 @@ "3" :> 3 @@ "4" :> 4 @@
    "5" :> 5 @@ "6" :> 6 @@ "7" :> 7 @@ "8" :> 8 @@ "9" :> 9

\* float(text) on digits with at most one point; any other text of
\* OracleTexts raises ValueError.
IsFloatLiteral(c) ==
    /\ \A i \in 1..Len(c) : c[i] \in DOMAIN DigitValue \cup {"."}
    /\ Cardinality({i \in 1..Len(c) : c[i] = "."}) <= 1
    /\ \E i \in 1..Len(c) : c[i] \in DOMAIN DigitValue

\* The value of the literal: n collects the digits read, d the power of ten of
\* those read after the point (0 before it).
RECURSIVE FloatValue(_, _, _)
FloatValue(c, n, d) ==
    IF c = <<>> THEN Rat(n, IF d = 0 THEN 1 ELSE d)
    ELSE IF c[1] = "." THEN FloatValue(Tail(c), n, 1)
    ELSE FloatValue(Tail(c), 10 * n + DigitValue[c[1]], 10 * d)

ParseFloat(c) == FloatValue(c, 0, 0)

\* What a method returns (raised = "none") or the exception that leaves it.
Returned(value) == [raised |-> "none", value |-> value]
Raised(exception) == [raised |-> exception, value |-> <<>>]

\* analyze_sentiment (lines 63-75): float(response.strip()); ValueError and
\* TypeError give 0.5; None.strip() raises AttributeError, which is not caught.
analyze_sentiment(oracle) ==
    LET response == get_completion(oracle)
    IN  IF response.kind = "None" THEN Raised("AttributeError")
        ELSE IF IsFloatLiteral(Strip(response.chars))
             THEN Returned(ParseFloat(Strip(response.chars)))
             ELSE Returned(Rat(1, 2))

\* extract_topics (lines 77-90): the stripped pieces of response.split(',');
\* any exception (None.split) gives ['general'].
extract_topics(oracle) ==
    LET response == get_completion(oracle)
    IN  IF response.kind = "None" THEN Returned(<<General>>)
        ELSE LET pieces == Split(response.chars)
             IN  Returned([i \in 1..Len(pieces) |-> Strip(pieces[i])])

\* JSON text is a sequence of tokens: the braces, the brackets, the colon,
\* the number 1, the string literal "k" (token k), a blank, and the bare
\* letter o, which no JSON value starts with.
JsonTexts ==
    {<<"{", "}">>,
     <<"{", "k", ":", "1", "}">>,
     <<" ", "{", "k", ":", "{", "}", "}", " ">>,
     <<"o", " ", "{", "k", ":", "1", "}", " ", "o">>,
     <<"o", " ", "{", "k", ":", "[", "1", "]", "}">>,
     <<"{", "k", ":", "1", "}", " ", "{", "}">>,
     <<"o", "{", "}", "o", "{", "k", ":", "1", "}">>,
     <<"[", "1", "]">>,
     <<"[", "{", "}", "]">>,
     <<"1">>,
     <<"k">>,
     <<"o">>,
     <<"{", "k", ":", "1">>,
     <<"}", " ", "{">>,
     <<"{", "o", "}">>,
     <<>>}

JsonValue(kind, items) == [kind |-> kind, items |-> items]
EmptyDict == JsonValue("dict", <<>>)

RECURSIVE SkipBlanks(_)
SkipBlanks(c) == IF c # <<>> /\ c[1] = " " THEN SkipBlanks(Tail(c)) ELSE c

ParseFail == [ok |-> FALSE, value |-> EmptyDict, rest |-> <<>>]
ParseOk(value, rest) == [ok |-> TRUE, value |-> value, rest |-> rest]

StartsWith(c, token) == c # <<>> /\ c[1] = token

\* One JSON value at the head of c, and what follows it.  Without a comma
\* token an array holds at most one element and an object one member.
RECURSIVE ParseValue(_)
ParseValue(c0) ==
    LET c == SkipBlanks(c0)
    IN  IF c = <<>> THEN ParseFail
        ELSE IF c[1] = "1" THEN ParseOk(JsonValue("num", <<"1">>), Tail(c))
        ELSE IF c[1] = "k" THEN ParseOk(JsonValue("str", <<"k">>), Tail(c))
        ELSE IF c[1] = "["
        THEN LET r == SkipBlanks(Tail(c))
             IN  IF StartsWith(r, "]") THEN ParseOk(JsonValue("list", <<>>), Tail(r))
                 ELSE LET v == ParseValue(r)
                          r2 == SkipBlanks(v.rest)
                      IN  IF v.ok /\ StartsWith(r2, "]")
                          THEN ParseOk(JsonValue("list", <<v.value>>), Tail(r2))
                          ELSE ParseFail
        ELSE IF c[1] = "{"
        THEN LET r == SkipBlanks(Tail(c))
             IN  IF StartsWith(r, "}") THEN ParseOk(EmptyDict, Tail(r))
                 ELSE IF StartsWith(r, "k") /\ StartsWith(SkipBlanks(Tail(r)), ":")
                 THEN LET v == ParseValue(Tail(SkipBlanks(Tail(r))))
                          r2 == SkipBlanks(v.rest)
                      IN  IF v.ok /\ StartsWith(r2, "}")
                          THEN ParseOk(JsonValue("dict", <<"k", v.value>>), Tail(r2))
                          ELSE ParseFail
                 ELSE ParseFail
        ELSE ParseFail

\* json.loads: the whole text is one value, or JSONDecodeError.
json_loads(c) ==
    LET v == ParseValue(c)
    IN  IF v.ok /\ SkipBlanks(v.rest) = <<>>
        THEN [error |-> "none", value |-> v.value]
        ELSE [error |-> "JSONDecodeError", value |-> EmptyDict]

\* json_str[find('{') : rfind('}') + 1] (lines 19-22), empty when either
\* brace is missing.
JsonSlice(c) ==
    LET opens == {i \in 1..Len(c) : c[i] = "{"}
        closes == {i \in 1..Len(c) : c[i] = "}"}
    IN  IF opens = {} \/ closes = {} THEN <<>>
        ELSE SubSeq(c, CHOOSE i \in opens : \A j \in opens : i <= j,
                       CHOOSE i \in closes : \A j \in closes : j <= i)

\* safe_parse_json (lines 11-28).
safe_parse_json(c) ==
    LET first == json_loads(c)
        second == json_loads(JsonSlice(c))
    IN  IF first.error = "none" THEN first.value
        ELSE IF second.error = "none" THEN second.value
        ELSE EmptyDict

\* ------------------------------------------- the functions, called directly
\* The weights the environment variables WEIGHT_* may give (lines 53-58): the
\* two configurations above and every combination of four levels, normalised
\* or not.
WeightLevels == {Zero, Rat(1, 4), Rat(1, 2), One}

WeightGrid ==
    WeightConfigs \cup
        [engagement : WeightLevels, sentiment : WeightLevels,
         relevance : WeightLevels, novelty : WeightLevels]

\* The metric values a caller may pass, inside [0,1] and above it.
MetricLevels == {Zero, Rat(1, 2), One, Rat(3, 2)}

MetricGrid ==
    [engagement_rate : MetricLevels, sentiment_score : MetricLevels,
     relevance_score : MetricLevels, novelty_score : MetricLevels]

\* The submissions calculate_engagement_rate may be given: net scores below and
\* above zero, comments present, missing or failing to load, and creation
\* times after, at and before the current time (0).
EngagementInputs ==
    [score : {0 - 50, 0, 40, 200},
     comments : {0, 10},
     has_comments : BOOLEAN,
     comments_ok : BOOLEAN,
     created_utc : {3600, 0, 0 - 1800, 0 - 3600, 0 - 7200}]

\* A direct call of function fn about to be made on argument arg, and the call
\* made with what it returned.
PendingCall(fn, arg) == [NoEvent EXCEPT !.step = "call", !.name = fn, !.arg = arg]

CallEvent(fn, arg, result) ==
    [NoEvent EXCEPT !.step = fn, !.arg = arg, !.result = result, !.returned = TRUE]

IsPending(fn) == last.step = "call" /\ last.name = fn

\* A pure function changes nothing.
FunctionFrame ==
    UNCHANGED <<utility_weights, submissions, learned_patterns, subreddit_models,
                pc, call, idx, processed, stored, pattern_src, checked,
                persisted, schema, action_outcomes>>

\* The calls to be made, with the agent's configuration.
InitCalls ==
    \/ /\ utility_weights \in WeightGrid
       /\ \E metrics \in MetricGrid : last = PendingCall("calculate_utility", metrics)
    \/ /\ utility_weights = DefaultWeights
       /\ \E s \in EngagementInputs : last = PendingCall("calculate_engagement_rate", s)
    \/ /\ utility_weights = DefaultWeights
       /\ \E oracle \in OracleOutcomes, fn \in {"analyze_sentiment", "extract_topics"} :
            last = PendingCall(fn, oracle)
    \/ /\ utility_weights = DefaultWeights
       /\ \E json_str \in JsonTexts : last = PendingCall("safe_parse_json", json_str)

InitFunctions ==
    /\ InitCalls
    /\ submissions = <<>>
    /\ learned_patterns = <<>>
    /\ subreddit_models = [a \in Agents |-> <<>>]
    /\ pc = [a \in Agents |-> "idle"]
    /\ call = [a \in Agents |-> NoCall]
    /\ idx = [a \in Agents |-> 0]
    /\ processed = [a \in Agents |-> <<>>]
    /\ stored = {}
    /\ pattern_src = <<>>
    /\ checked = [a \in Agents |-> {}]
    /\ persisted = [a \in Agents |-> <<>>]
    /\ schema = Tables
    /\ action_outcomes = <<>>

\* agent.calculate_utility(metrics).
CalculateUtility ==
    /\ IsPending("calculate_utility")
    /\ last' = CallEvent("calculate_utility", last.arg,
                         calculate_utility(utility_weights, last.arg))
    /\ FunctionFrame

\* The sum of w[i] * m[i] over one common denominator, in integers.
WeightedSum(w, m) ==
    LET ws == <<w.engagement, w.sentiment, w.relevance, w.novelty>>
        ms == <<m.engagement_rate, m.sentiment_score, m.relevance_score, m.novelty_score>>
        den(i) == ws[i].d * ms[i].d
        num(i) == ws[i].n * ms[i].n
        D == den(1) * den(2) * den(3) * den(4)
    IN  Rat(num(1) * (D \div den(1)) + num(2) * (D \div den(2))
              + num(3) * (D \div den(3)) + num(4) * (D \div den(4)), D)

InUnit(x) == RLe(Zero, x) /\ RLe(x, One)

WeightsNormalised(w) ==
    /\ \A k \in DOMAIN w : RLe(Zero, w[k])
    /\ RAdd(RAdd(RAdd(w.engagement, w.sentiment), w.relevance), w.novelty) = One

MetricsInUnit(m) == \A k \in DOMAIN m : InUnit(m[k])

\* C11: with four non-negative weights that sum to 1 and four metrics in
\* [0,1], calculate_utility returns the weighted sum of the metrics, and the
\* result lies in [0,1].
C11_UtilityIsWeightedSumInUnit ==
    (/\ last.step = "calculate_utility"
     /\ WeightsNormalised(utility_weights)
     /\ MetricsInUnit(last.arg))
    => /\ last.result = WeightedSum(utility_weights, last.arg)
       /\ InUnit(last.result)

\* The default weights on engagement 1 and the other metrics 1/2: 0.7.
C11_Witness ==
    /\ last.step = "calculate_utility"
    /\ utility_weights = DefaultWeights
    /\ MetricsInUnit(last.arg)
    /\ last.arg.engagement_rate = One
    /\ last.result = Rat(7, 10)

\* analyzer.calculate_engagement_rate(submission).
CalculateEngagementRate ==
    /\ IsPending("calculate_engagement_rate")
    /\ last' = CallEvent("calculate_engagement_rate", last.arg,
                         calculate_engagement_rate(last.arg))
    /\ FunctionFrame

\* C12: whatever the score, the comment count and the creation time of the
\* submission, the engagement rate calculate_engagement_rate returns lies in
\* [0,1].
C12_EngagementInUnit ==
    last.step = "calculate_engagement_rate" => InUnit(last.result)

\* score + comment_count, the comments counting 0 when they are missing or
\* their fetch fails.
TotalEngagement(s) ==
    s.score + (IF s.has_comments /\ s.comments_ok THEN s.comments ELSE 0)

\* C13: calculate_engagement_rate returns
\* min(1.0, (score + comment_count) / (100 * max(1.0, age_seconds / 3600))),
\* where comment_count is 0 when the comments are missing or their fetch fails,
\* and it returns a value (no error) in those cases too; score 0, no comments,
\* age 0 gives 0.0, and score 200, no comments, age 3600 s gives 1.0.
C13_EngagementFormula ==
    last.step = "calculate_engagement_rate" =>
        LET s == last.arg
            age == 0 - s.created_utc
            num == IF age <= 3600 THEN TotalEngagement(s) ELSE TotalEngagement(s) * 3600
            den == IF age <= 3600 THEN 100 ELSE 100 * age
        IN  /\ IsNumeric(last.result)
            /\ IF num >= den THEN last.result = One
                             ELSE last.result.n * den = num * last.result.d
            /\ (s.score = 0 /\ s.comments = 0 /\ age = 0) => last.result = Zero
            /\ (s.score = 200 /\ s.comments = 0 /\ age = 3600) => last.result = One

\* A two-hour-old submission with score 40 whose comment fetch fails: the 10
\* comments count 0, and the rate is 40 / (100 * 2) = 0.2.
C13_Witness ==
    /\ last.step = "calculate_engagement_rate"
    /\ last.arg.score = 40
    /\ last.arg.comments = 10
    /\ last.arg.has_comments /\ ~last.arg.comments_ok
    /\ last.arg.created_utc = 0 - 7200
    /\ last.result = Rat(1, 5)

\* A call that returned r.value or raised r.raised.
CallOutcome(fn, arg, r) ==
    [CallEvent(fn, arg, r.value) EXCEPT !.raised = r.raised # "none", !.outcome = r.raised]

\* llm.analyze_sentiment(text), with what the completion request does.
AnalyzeSentiment ==
    /\ IsPending("analyze_sentiment")
    /\ last' = CallOutcome("analyze_sentiment", last.arg, analyze_sentiment(last.arg))
    /\ FunctionFrame

\* llm.extract_topics(text), with what the completion request does.
ExtractTopics ==
    /\ IsPending("extract_topics")
    /\ last' = CallOutcome("extract_topics", last.arg, extract_topics(last.arg))
    /\ FunctionFrame

\* The request raised or its reply holds no content.
OracleFailed(oracle) == oracle.kind \in {"raise", "None"}

\* C18: when the oracle call fails or its answer is unusable, the sentiment
\* used is 0.5 and the topics used are ["general"], and no error leaves the
\* analyzer.
C18_OracleFailureGivesDefaults ==
    /\ (last.step = "analyze_sentiment" /\ OracleFailed(last.arg)) =>
            (~last.raised /\ last.result = Rat(1, 2))
    /\ (last.step = "extract_topics" /\ OracleFailed(last.arg)) =>
            (~last.raised /\ last.result = <<General>>)

\* safe_parse_json(json_str).
SafeParseJson ==
    /\ IsPending("safe_parse_json")
    /\ last' = CallEvent("safe_parse_json", last.arg, safe_parse_json(last.arg))
    /\ FunctionFrame

\* The first `{...}` object embedded in the text: the value that starts at the
\* first opening brace, whatever follows it.
FirstObject(c) ==
    LET opens == {i \in 1..Len(c) : c[i] = "{"}
    IN  IF opens = {} THEN ParseFail
        ELSE ParseValue(SubSeq(c, CHOOSE i \in opens : \A j \in opens : i <= j, Len(c)))

\* C23: safe_parse_json returns a mapping for every response text: the parsed
\* object when the text is a JSON object, the first `{...}` object embedded in
\* wrapper text when there is one, and the empty mapping otherwise.
C23_SafeParseReturnsMapping ==
    last.step = "safe_parse_json" =>
        LET whole == json_loads(last.arg)
            embedded == FirstObject(last.arg)
        IN  /\ last.result.kind = "dict"
            /\ last.result =
                  (IF whole.error = "none" /\ whole.value.kind = "dict" THEN whole.value
                   ELSE IF embedded.ok THEN embedded.value
                   ELSE EmptyDict)

NextFunctions ==
    CalculateUtility \/ CalculateEngagementRate \/ AnalyzeSentiment \/ ExtractTopics
        \/ SafeParseJson

SpecFunctions == InitFunctions /\ [][NextFunctions]_vars

\* ------------------------------------ the agent's and the database's methods
MaxPatterns == 6

\* best_patterns keeps the first five (line 187).
TopN == 5

\* The database file as one value.
Db ==
    [schema |-> schema, submissions |-> submissions,
     learned_patterns |-> learned_patterns, action_outcomes |-> action_outcomes]

\* DROP TABLE and CREATE TABLE in place of CREATE TABLE IF NOT EXISTS.
RecreateTable(db, table) ==
    [db EXCEPT !.schema = @ \cup {table}, ![table] = <<>>]

\* CREATE TABLE IF NOT EXISTS (lines 23, 40, 53): a table that exists is left
\* as it is, a missing one is created empty.
CreateTableIfNotExists(db, table) ==
    IF table \in db.schema
    THEN db
    ELSE [db EXCEPT !.schema = @ \cup {table}, ![table] = <<>>]

setup_database(db) ==
    CreateTableIfNotExists(
        CreateTableIfNotExists(
            CreateTableIfNotExists(db, "submissions"), "learned_patterns"),
        "action_outcomes")

\* ORDER BY confidence DESC, and sorted(..., reverse=True): rows of equal
\* confidence keep their order.
RECURSIVE SortByConfidenceDesc(_)
SortByConfidenceDesc(rows) ==
    IF rows = <<>>
    THEN <<>>
    ELSE LET r == rows[Len(rows)]
             sorted == SortByConfidenceDesc(SubSeq(rows, 1, Len(rows) - 1))
             k == Cardinality({i \in 1..Len(sorted) : RLe(r.confidence, sorted[i].confidence)})
         IN  SubSeq(sorted, 1, k) \o <<r>> \o SubSeq(sorted, k + 1, Len(sorted))

\* get_patterns (lines 119-142): the community's rows, highest confidence
\* first, as dictionaries.
get_patterns(tbl, subreddit) ==
    LET rows == SortByConfidenceDesc(SelectSeq(tbl, LAMBDA r : r.subreddit = subreddit))
    IN  [i \in 1..Len(rows) |->
            [pattern_id |-> rows[i].pattern_id,
             pattern_type |-> rows[i].pattern_type,
             pattern_data |-> rows[i].pattern_data,
             confidence |-> rows[i].confidence,
             utility_score |-> rows[i].utility_score]]

\* Lines 198-209.
generate_suggestion(pattern, model_data) ==
    IF pattern.pattern_type = "successful_post"
    THEN <<"Post around", pattern.pattern_data.post_time,
           "with content length", pattern.pattern_data.content_length,
           "on topics", pattern.pattern_data.topics>>
    ELSE <<"No specific suggestion available">>

\* The sort without the slice.
AllPatterns(patterns) == SortByConfidenceDesc(patterns)

\* Lines 183-187: sorted(patterns, key=confidence, reverse=True)[:5].
best_patterns(patterns) ==
    LET sorted == SortByConfidenceDesc(patterns)
    IN  SubSeq(sorted, 1, IF Len(sorted) < TopN THEN Len(sorted) ELSE TopN)

\* get_recommendations (lines 175-196) on the patterns table and one agent's
\* subreddit_models m.
get_recommendations(tbl, m, subreddit) ==
    LET patterns == get_patterns(tbl, subreddit)
        model_data == IF subreddit \in DOMAIN m THEN m[subreddit] ELSE <<>>
    IN  IF Len(patterns) > 0 /\ DOMAIN model_data # {}
        THEN LET best == best_patterns(patterns)
             IN  [i \in 1..Len(best) |->
                    [type |-> best[i].pattern_type,
                     confidence |-> best[i].confidence,
                     suggestion |-> generate_suggestion(best[i], model_data)]]
        ELSE <<>>

\* The agent whose methods are called one after the other.
Caller == CHOOSE a \in Agents : \A b \in Agents : a <= b

\* The patterns store_pattern is given: community and confidence.
PatternInputs ==
    {[subreddit |-> "x", confidence |-> Rat(3, 4)],
     [subreddit |-> "x", confidence |-> Rat(9, 10)],
     [subreddit |-> "y", confidence |-> Rat(4, 5)]}

\* The communities recommendations are asked for.
Communities == {"x", "y"}

\* A method call that has returned (or raised `outcome`).
ApiEvent(step, name, sid, outcome, result) ==
    [Event(Caller, step, name, 0, 0, sid, outcome, FALSE)
        EXCEPT !.returned = TRUE, !.result = result]

\* No method below touches the loop of process_subreddit.
ApiFrame == UNCHANGED <<utility_weights, call, idx, processed, checked, persisted>>

\* No database file yet, no agent constructed.
InitApi ==
    /\ utility_weights = DefaultWeights
    /\ submissions = <<>>
    /\ learned_patterns = <<>>
    /\ subreddit_models = [a \in Agents |-> <<>>]
    /\ pc = [a \in Agents |-> "new"]
    /\ call = [a \in Agents |-> NoCall]
    /\ idx = [a \in Agents |-> 0]
    /\ processed = [a \in Agents |-> <<>>]
    /\ stored = {}
    /\ pattern_src = <<>>
    /\ checked = [a \in Agents |-> {}]
    /\ last = NoEvent
    /\ persisted = [a \in Agents |-> <<>>]
    /\ schema = {}
    /\ action_outcomes = <<>>

\* RedditAIAgent(db_path) (agent.py lines 27-58), at the first start and at
\* every later one: Database.__init__ runs setup_database on the file, and the
\* new agent's subreddit_models is empty.
Startup ==
    /\ LET db == setup_database(Db)
       IN  /\ schema' = db.schema
           /\ submissions' = db.submissions
           /\ learned_patterns' = db.learned_patterns
           /\ action_outcomes' = db.action_outcomes
           /\ last' = [ApiEvent("startup", "", 0, "none", <<>>) EXCEPT !.arg = Db]
    /\ subreddit_models' = [subreddit_models EXCEPT ![Caller] = <<>>]
    /\ pc' = [pc EXCEPT ![Caller] = "idle"]
    /\ UNCHANGED <<stored, pattern_src>>
    /\ ApiFrame

\* db.store_submission(submission, analysis, utility_score).
StoreSubmission ==
    /\ pc[Caller] = "idle"
    /\ \E k \in 1..Len(SourceIds) :
         LET s == Submission(SourceIds[k])
             analysis == analyze_submission(s)
             utility_score == calculate_utility(utility_weights, UtilityMetrics(s, analysis))
             insert == store_submission(submissions, s, analysis, utility_score)
         IN  /\ submissions' = insert.tbl
             /\ stored' = IF insert.error = "none" THEN stored \cup {s.id} ELSE stored
             /\ last' = ApiEvent("store_submission", s.subreddit, s.id, insert.error, <<>>)
    /\ UNCHANGED <<learned_patterns, pattern_src, subreddit_models, pc, schema, action_outcomes>>
    /\ ApiFrame

\* db.store_pattern(subreddit, "successful_post", pattern_data, confidence).
StorePattern ==
    /\ pc[Caller] = "idle"
    /\ Len(learned_patterns) < MaxPatterns
    /\ \E p \in PatternInputs :
         /\ learned_patterns' =
                store_pattern(learned_patterns, p.subreddit, "successful_post",
                              PatternData(Submission(0), analyze_submission(Submission(0))),
                              p.confidence)
         /\ last' = ApiEvent("store_pattern", p.subreddit, 0, "none", <<>>)
    /\ pattern_src' = Append(pattern_src, 0)
    /\ UNCHANGED <<submissions, stored, subreddit_models, pc, schema, action_outcomes>>
    /\ ApiFrame

\* agent.update_model("x", observations), as process_subreddit calls it.
UpdateModel ==
    /\ pc[Caller] = "idle"
    /\ LET s == Submission(SourceIds[1])
           metrics == UtilityMetrics(s, analyze_submission(s))
       IN  subreddit_models' =
               [subreddit_models EXCEPT ![Caller] = update_model(@, "x", Observations(metrics))]
    /\ last' = ApiEvent("update_model", "x", 0, "none", <<>>)
    /\ UNCHANGED <<submissions, learned_patterns, stored, pattern_src, pc, schema, action_outcomes>>
    /\ ApiFrame

\* agent.get_recommendations(subreddit).
GetRecommendationsFor(names) ==
    /\ pc[Caller] = "idle"
    /\ \E subreddit \in names :
         last' = ApiEvent("get_recommendations", subreddit, 0, "none",
                          get_recommendations(learned_patterns, subreddit_models[Caller],
                                              subreddit))
    /\ UNCHANGED <<submissions, learned_patterns, stored, pattern_src, subreddit_models,
                   pc, schema, action_outcomes>>
    /\ ApiFrame

GetRecommendations == GetRecommendationsFor(Communities)

NextApi == Startup \/ StoreSubmission \/ StorePattern \/ UpdateModel \/ GetRecommendations

SpecApi == InitApi /\ [][NextApi]_vars

\* The rows of learned_patterns stored for a community.
PatternsOf(subreddit) ==
    {i \in 1..Len(learned_patterns) : learned_patterns[i].subreddit = subreddit}

\* C14: for every community and every content of the patterns table,
\* get_recommendations returns at most 5 recommendations, their confidences
\* never increase along the sequence, and the k-th of them has the k-th
\* highest confidence stored for that community.
C14_TopFiveByConfidence ==
    last.step = "get_recommendations" =>
        LET res == last.result
            mine == PatternsOf(last.name)
            above(c) == {i \in mine : RGt(learned_patterns[i].confidence, c)}
            atLeast(c) == {i \in mine : RLe(c, learned_patterns[i].confidence)}
        IN  /\ Len(res) <= 5
            /\ \A k \in 1..(Len(res) - 1) : RLe(res[k + 1].confidence, res[k].confidence)
            /\ \A k \in 1..Len(res) :
                 /\ Cardinality(above(res[k].confidence)) <= k - 1
                 /\ Cardinality(atLeast(res[k].confidence)) >= k

\* Six patterns stored for "x", the oldest with the lower confidence: the five
\* returned start at 0.9 and end at 0.75.
C14_Witness ==
    /\ last.step = "get_recommendations"
    /\ last.name = "x"
    /\ Cardinality(PatternsOf("x")) = 6
    /\ learned_patterns[1].confidence = Rat(3, 4)
    /\ Len(last.result) = 5
    /\ last.result[1].confidence = Rat(9, 10)
    /\ last.result[5].confidence = Rat(3, 4)

\* C15: get_recommendations(c) returns an empty sequence when neither patterns
\* nor model data exist for c; otherwise it returns the top patterns, so with
\* n >= 1 patterns stored for c it returns min(5, n) recommendations whether or
\* not the agent's in-memory model holds data for c.
C15_RecommendationsWithoutModel ==
    last.step = "get_recommendations" =>
        LET n == Cardinality(PatternsOf(last.name))
            m == subreddit_models[Caller]
        IN  /\ (n = 0 /\ last.name \notin DOMAIN m) => last.result = <<>>
            /\ n >= 1 => Len(last.result) = (IF n < 5 THEN n ELSE 5)

\* ------------------------------------------- process_subreddit, continued
\* C16: the record process_subreddit persists for a submission carries the
\* scores computed for it: its engagement score is the engagement rate used in
\* the utility computation, and its utility score is the computed utility.
C16_RecordCarriesScores ==
    \A i \in 1..Len(submissions) :
        LET s == Submission(submissions[i].submission_id)
            metrics == UtilityMetrics(s, analyze_submission(s))
        IN  /\ submissions[i].engagement_score = metrics.engagement_rate
            /\ submissions[i].utility_score = calculate_utility(utility_weights, metrics)

\* C17: the list process_subreddit returns holds, in source order, exactly one
\* entry (id, title, utility score, the four metrics) for each submission
\* whose record the call persisted, and no other entry.
C17_ReturnedListIsPersisted ==
    (last.returned /\ last.step \in {"validate", "check", "store", "learn"}) =>
        /\ Len(last.result) = Len(last.persisted)
        /\ \A k \in 1..Len(last.result) :
             LET s == Submission(last.persisted[k])
                 metrics == UtilityMetrics(s, analyze_submission(s))
             IN  last.result[k] =
                     ProcessedEntry(s, calculate_utility(utility_weights, metrics), metrics)

\* ------------------------------------------------- the database, continued
IsPrefix(old, new) ==
    /\ Len(old) <= Len(new)
    /\ \A i \in 1..Len(old) : new[i] = old[i]

\* C19: submission rows are write-once and pattern rows append-only: no
\* operation (store_submission, store_pattern, get_patterns within
\* get_recommendations, update_model, setup_database at a start) changes or
\* deletes a row that exists, so is_submission_processed(id), once true, stays
\* true.
C19_RowsAreNeverChanged ==
    [][/\ IsPrefix(submissions, submissions')
       /\ IsPrefix(learned_patterns, learned_patterns')
       /\ \A k \in 1..Len(SourceIds) :
            is_submission_processed(submissions, SourceIds[k])
                => is_submission_processed(submissions', SourceIds[k])]_vars

\* A second store_submission of a stored id was refused while both submissions
\* and three patterns, two of them for one community, were on file.
C19_Witness ==
    /\ last.step = "store_submission"
    /\ last.outcome = "IntegrityError"
    /\ Len(submissions) = Len(SourceIds)
    /\ Len(learned_patterns) = 3
    /\ Cardinality(PatternsOf("x")) = 2

\* C20: setup_database on a database that already has the three tables
\* succeeds and leaves every submission, pattern and action_outcome row as it
\* was.
C20_SetupIsIdempotent ==
    (last.step = "startup" /\ last.arg.schema = Tables) =>
        /\ last.outcome = "none"
        /\ schema = Tables
        /\ submissions = last.arg.submissions
        /\ learned_patterns = last.arg.learned_patterns
        /\ action_outcomes = last.arg.action_outcomes

\* A restart on a file that holds a submission and two patterns.
C20_Witness ==
    /\ last.step = "startup"
    /\ last.arg.schema = Tables
    /\ Len(last.arg.submissions) = 1
    /\ Len(last.arg.learned_patterns) = 2
    /\ Len(submissions) = 1
    /\ Len(learned_patterns) = 2

\* ------------------------------------------ process_subreddit, patterns
\* C21: in every reachable state each learned pattern comes from a submission
\* whose record was persisted before the pattern was written, and the
\* pattern's confidence is that record's utility score.
C21_PatternFollowsRecord ==
    /\ Len(pattern_src) = Len(learned_patterns)
    /\ \A k \in 1..Len(learned_patterns) :
         /\ pattern_src[k] \in stored
         /\ \E i \in RowsWithId(pattern_src[k]) :
              submissions[i].utility_score = learned_patterns[k].confidence

\* The pattern of submission 2, written with confidence 0.71 after its record.
C21_Witness ==
    /\ last.step = "learn"
    /\ last.outcome = "learned"
    /\ last.sid = 2
    /\ Len(learned_patterns) = 1
    /\ learned_patterns[1].confidence = Rat(71, 100)
    /\ \E i \in RowsWithId(2) : submissions[i].utility_score = Rat(71, 100)

\* C24: with two agents processing one community against one database, no
\* submission id ever has more than one learned pattern, however their dedup
\* checks, record inserts and pattern inserts interleave.
C24_AtMostOnePatternPerId ==
    \A k \in 1..Len(SourceIds) : Cardinality(PatternsFrom(SourceIds[k])) <= 1

\* Both agents passed the dedup check of submission 2; one inserted the record
\* and wrote the pattern, and then the other's INSERT was refused.
C24_Witness ==
    /\ last.step = "store"
    /\ last.outcome = "IntegrityError"
    /\ last.sid = 2
    /\ Cardinality(PatternsFrom(2)) = 1
    /\ pattern_src[1] = 2

\* The ids whose record the call of event ev has inserted so far.
PersistedBy(ev) ==
    LET ids == IF ev.returned THEN ev.persisted ELSE persisted[ev.agent]
    IN  {ids[i] : i \in 1..Len(ids)}

\* C25: when the processing of a submission raises, at whatever step, the call
\* leaves no submission row for that id persisted (and no state update), so a
\* later call processes the submission again.
C25_FailedProcessingLeavesNoRow ==
    (last.step \in {"check", "store", "learn"} /\ IsError(last.outcome)) =>
        last.sid \notin PersistedBy(last)

\* ------------------------------------------------ update_model, in sequence
MaxUpdates == 3

\* A value float() rejects (ValueError).
TextValue == [kind |-> "str", n |-> 0, d |-> 1]

\* The observations update_model is given: one key each, a metric inside or
\* outside [0,1] or a text.
NewDataInputs ==
    {[avg_engagement |-> v] : v \in {Zero, Rat(1, 2), One, Rat(3, 2), TextValue}}
        \cup {[avg_sentiment |-> Rat(1, 2)]}

\* agent.update_model("x", new_data); last.arg lists the observations given
\* so far.
UpdateModelWith ==
    /\ pc[Caller] = "idle"
    /\ Len(last.arg) < MaxUpdates
    /\ \E new_data \in NewDataInputs :
         /\ subreddit_models' =
                [subreddit_models EXCEPT ![Caller] = update_model(@, "x", new_data)]
         /\ last' = [ApiEvent("update_model", "x", 0, "none", <<>>)
                        EXCEPT !.arg = Append(last.arg, new_data)]
    /\ UNCHANGED <<submissions, learned_patterns, stored, pattern_src, pc, schema,
                   action_outcomes>>
    /\ ApiFrame

NextModel == UpdateModelWith

SpecModel == Init /\ [][NextModel]_vars

\* The observation of the latest update_model call.
LatestData(ev) == ev.arg[Len(ev.arg)]

\* C22: when update_model runs on a community with prior state and the old
\* value of a key with a numeric observation is absent or not a number, the
\* old value counts as 0: the stored value becomes learning_rate times the
\* observation.
C22_MissingOldValueCountsAsZero ==
    [][last'.step = "update_model" =>
        LET old == subreddit_models[Caller]
            new == subreddit_models'[Caller]
            new_data == LatestData(last')
        IN  "x" \in DOMAIN old =>
              \A key \in DOMAIN new_data :
                 (/\ IsNumeric(new_data[key])
                  /\ (key \notin DOMAIN old["x"] \/ ~IsNumeric(old["x"][key])))
                 => new["x"][key] = RMul(learning_rate, new_data[key])]_vars

ObservationsInUnit(history) ==
    \A i \in 1..Len(history) : \A key \in DOMAIN history[i] :
        IsNumeric(history[i][key]) /\ InUnit(history[i][key])

Between(a, b, v) ==
    \/ RLe(a, v) /\ RLe(v, b)
    \/ RLe(b, v) /\ RLe(v, a)

\* C27: with a learning rate in [0,1] and every observed metric in [0,1],
\* after any sequence of update_model calls every numeric value of the state
\* store lies in [0,1], and each update puts a value between its old value and
\* the new observation.
C27_ModelStaysInUnit ==
    [][(/\ last'.step = "update_model"
        /\ InUnit(learning_rate)
        /\ ObservationsInUnit(last'.arg))
       => LET old == subreddit_models[Caller]
              new == subreddit_models'[Caller]
              new_data == LatestData(last')
          IN  \A key \in DOMAIN new["x"] :
                 /\ IsNumeric(new["x"][key])
                 /\ InUnit(new["x"][key])
                 /\ ("x" \in DOMAIN old /\ key \in DOMAIN new_data)
                      => Between(IF key \in DOMAIN old["x"] THEN old["x"][key] ELSE Zero,
                                 new_data[key], new["x"][key])]_vars

\* Engagement observed as 1, then 0, then 1/2: the stored value is 1, then
\* 0.9, then 0.86.
C27_Witness ==
    /\ last.step = "update_model"
    /\ Len(last.arg) = 3
    /\ ObservationsInUnit(last.arg)
    /\ last.arg[2] = [avg_engagement |-> Zero]
    /\ subreddit_models[Caller]["x"].avg_engagement = Rat(43, 50)

\* --------------------------------------- community names and letter case
\* The content source takes a community name in any letter case
\* (self.reddit.subreddit(name), line 75); the submissions it lists carry the
\* community's own name, "x".
AliasNames == {"x", "X"}

ProcessAlias == ValidateNames(Caller, AliasNames)

RecommendAlias == GetRecommendationsFor(AliasNames)

NextCase ==
    ProcessAlias \/ Check(Caller) \/ Store(Caller) \/ Learn(Caller) \/ RecommendAlias

SpecCase == Init /\ [][NextCase]_vars

\* C26: a pattern persisted during process_subreddit(c) is stored under the
\* key the state store is updated under, c, so that get_patterns(c) returns it
\* and get_recommendations(c) uses it, also when the submission's own
\* community name differs from c in letter case.
C26_PatternStoredUnderRequestedName ==
    (last.step = "learn" /\ last.outcome = "learned") =>
        LET row == learned_patterns[Len(learned_patterns)]
            found == get_patterns(learned_patterns, last.name)
        IN  /\ row.subreddit = last.name
            /\ last.name \in DOMAIN subreddit_models[last.agent]
            /\ \E i \in 1..Len(found) : found[i].pattern_id = row.pattern_id
            /\ Len(get_recommendations(learned_patterns, subreddit_models[last.agent],
                                       last.name)) > 0

\* ------------------------------------------- process_subreddit, run again
\* Agent a is at a dedup check of a call that has inserted and listed nothing
\* so far, and every submission of its listing has its record: the state of a
\* call repeated over an unchanged listing, from its first check to its last.
SecondPass(a) ==
    /\ pc[a] = "check"
    /\ processed[a] = <<>>
    /\ persisted[a] = <<>>
    /\ \A i \in 1..Len(Listing(a)) : is_submission_processed(submissions, Listing(a)[i].id)

\* C28: when nothing fails and the listing is unchanged, a second
\* process_subreddit(c, limit) skips every submission, leaves the submissions
\* table, the patterns table and the state store as they were, and returns an
\* empty list.
C28_SecondCallChangesNothing ==
    [][\A a \in Agents :
         (/\ SecondPass(a)
          /\ last'.agent = a
          /\ last'.step = "check"
          /\ ~IsError(last'.outcome))
         => /\ last'.outcome = "skip"
            /\ submissions' = submissions
            /\ learned_patterns' = learned_patterns
            /\ subreddit_models' = subreddit_models
            /\ IF last'.returned
               THEN last'.result = <<>> /\ last'.persisted = <<>>
               ELSE SecondPass(a)']_vars

\* A call over the whole listing, both records and the pattern already on
\* file, has checked both submissions, inserted nothing and returned [].
C28_Witness ==
    /\ last.returned
    /\ last.step = "check"
    /\ last.outcome = "skip"
    /\ last.limit = Len(SourceIds)
    /\ last.checked = 1..Len(SourceIds)
    /\ last.persisted = <<>>
    /\ last.result = <<>>
    /\ Len(submissions) = Len(SourceIds)
    /\ Len(learned_patterns) = 1
    /\ \A a \in Agents : pc[a] = "idle"

====
